---------------------------- MODULE Spec2Model ----------------------------
(***************************************************************************)
(* Model of the KeyValueDB server (src/server.py): the collection store,   *)
(* the query parser and executor, the request dispatch loop and the        *)
(* snapshot job of the background scheduler.                               *)
(*                                                                         *)
(* Python objects are tagged records [t |-> type, v |-> payload]; a Python *)
(* dict is the sequence of its (key, value) pairs in insertion order.      *)
(***************************************************************************)
EXTENDS Integers, Sequences, FiniteSets, TLC

VARIABLES
    collections,  \* self.collections: dict of collection name -> dict
    request,      \* the request _listen received last
    response,     \* the Response sent for it (None: none was sent)
    server,       \* "listening", or "crashed" once an exception escaped _listen
    before,       \* history: self.collections as it was when request arrived
    job,          \* the snapshot job's thread: its position in _create_snapshot
    written,      \* history: the (name, content) files the current pass wrote
    instants,     \* history: self.collections at the copy and after each
                  \* request served during the current pass
    Data,         \* the files of the directory Data: (collection name, content)
    collection_names  \* self.collection_names, read from config.ini

vars == <<collections, request, response, server, before, job, written, instants,
          Data, collection_names>>

(***************************************************************************)
(* Bounds of the model.                                                    *)
(***************************************************************************)
\* Number of distinct integer values a client may store (20, 25, ...).
MaxVal == 2

\* Number of requests served while one snapshot pass is under way.
MaxDuring == 2

(***************************************************************************)
(* Python objects.                                                         *)
(***************************************************************************)
None == [t |-> "None", v |-> 0]
PyInt(n) == [t |-> "int", v |-> n]
PyStr(s) == [t |-> "str", v |-> s]
PyList(xs) == [t |-> "list", v |-> xs]
PyDict(items) == [t |-> "dict", v |-> items]

\* The objects Python can hash (usable as dict keys); a list is not.
Hashable(x) == x.t \in {"None", "int", "float", "complex", "str"}

(***************************************************************************)
(* dict: insertion-ordered sequence of <<key, value>> pairs, keys unique.  *)
(***************************************************************************)
dict_contains(d, k) == \E i \in 1..Len(d) : d[i][1] = k

dict_index(d, k) == CHOOSE i \in 1..Len(d) : d[i][1] = k

\* d[k]
dict_getitem(d, k) == d[dict_index(d, k)][2]

\* d[k] = x : an existing key keeps its position, a new key goes last.
dict_setitem(d, k, x) ==
    IF dict_contains(d, k)
    THEN [d EXCEPT ![dict_index(d, k)] = <<k, x>>]
    ELSE Append(d, <<k, x>>)

\* del d[k], for k present.
dict_delitem(d, k) ==
    LET i == dict_index(d, k)
    IN SubSeq(d, 1, i - 1) \o SubSeq(d, i + 1, Len(d))

dict_keys(d) == {d[i][1] : i \in 1..Len(d)}

(***************************************************************************)
(* Characters and strings.                                                 *)
(***************************************************************************)
alphas == "abcdefghijklmnopqrstuvwxyzABCDEFGHIJKLMNOPQRSTUVWXYZ"

char(s, i) == SubSeq(s, i, i)

InChars(c, chars) == \E i \in 1..Len(chars) : char(chars, i) = c

\* str.isalpha(): non-empty and every character alphabetic.
isalpha(s) == Len(s) > 0 /\ \A i \in 1..Len(s) : InChars(char(s, i), alphas)

(***************************************************************************)
(* Response (src/Models/response.py) and the handlers' outcomes.           *)
(***************************************************************************)
Response(success, message, collection_name, data) ==
    [success |-> success, message |-> message,
     collection_name |-> collection_name, data |-> data]

\* A handler returned resp, leaving the store as colls.
Return(colls, resp) == [raised |-> FALSE, collections |-> colls, response |-> resp]

\* A handler let an exception escape, leaving the store as colls.
Raise(colls) == [raised |-> TRUE, collections |-> colls, response |-> None]

\* _send_error naming a collection in the failure.
_send_error_named(description) ==
    Response(FALSE, PyStr(description), PyStr("age"), None)

_send_error(description) == Response(FALSE, PyStr(description), None, None)

(***************************************************************************)
(* Collection store.                                                       *)
(***************************************************************************)
\* self.collections[collection_name] succeeds.
_collection_exists(colls, collection_name) ==
    /\ Hashable(collection_name)
    /\ dict_contains(colls, collection_name)

\* _create_collection without the test for an existing collection.
_create_collection_overwrite(colls, collection_name) ==
    IF collection_name.t # "str"
    THEN Raise(colls)
    ELSE IF isalpha(collection_name.v)
         THEN Return(dict_setitem(colls, collection_name, <<>>),
                     Response(TRUE, None, collection_name, None))
         ELSE Return(colls, _send_error("Invalid collection name."))

_create_collection(colls, collection_name) ==
    IF collection_name.t # "str"
    THEN Raise(colls)  \* AttributeError: no isalpha
    ELSE IF isalpha(collection_name.v)
         THEN IF ~dict_contains(colls, collection_name)
              THEN Return(dict_setitem(colls, collection_name, <<>>),
                          Response(TRUE, None, collection_name, None))
              ELSE Return(colls, _send_error("Collection already exists."))
         ELSE Return(colls, _send_error("Invalid collection name."))

\* _delete_collection emptying the collection instead of removing it.
_delete_collection_clear(colls, collection_name) ==
    IF ~Hashable(collection_name)
    THEN Raise(colls)
    ELSE IF dict_contains(colls, collection_name)
         THEN Return(dict_setitem(colls, collection_name, <<>>),
                     Response(TRUE, None, None, None))
         ELSE Return(colls, _send_error("Collection does not exist."))

_delete_collection(colls, collection_name) ==
    IF ~Hashable(collection_name)
    THEN Raise(colls)  \* TypeError is not KeyError
    ELSE IF dict_contains(colls, collection_name)
         THEN Return(dict_delitem(colls, collection_name),
                     Response(TRUE, None, None, None))
         ELSE Return(colls, _send_error("Collection does not exist."))

_read(colls, key, collection_name) ==
    IF _collection_exists(colls, collection_name)
    THEN LET d == dict_getitem(colls, collection_name)
         IN IF Hashable(key) /\ dict_contains(d, key)
            THEN Return(colls, Response(TRUE, None, collection_name,
                                        PyList(<<<<key, dict_getitem(d, key)>>>>)))
            ELSE Return(colls, _send_error("Entry does not exist."))
    ELSE Return(colls, _send_error("Collection does not exist."))

\* _add storing the pair as a new entry even when the key is present.
_add_append(colls, key, value, collection_name) ==
    IF _collection_exists(colls, collection_name)
    THEN LET d2 == Append(dict_getitem(colls, collection_name), <<key, value>>)
         IN Return(dict_setitem(colls, collection_name, d2),
                   Response(TRUE, None, collection_name, PyList(<<<<key, value>>>>)))
    ELSE Return(colls, _send_error("Collection does not exist."))

\* _add creating the collection it does not find before it fails.
_add_autocreate(colls, key, value, collection_name) ==
    IF _collection_exists(colls, collection_name)
    THEN LET d == dict_getitem(colls, collection_name)
         IN IF Hashable(key)
            THEN LET d2 == dict_setitem(d, key, value)
                 IN Return(dict_setitem(colls, collection_name, d2),
                           Response(TRUE, None, collection_name,
                                    PyList(<<<<key, dict_getitem(d2, key)>>>>)))
            ELSE Return(colls, _send_error("Entry could not be added."))
    ELSE Return(dict_setitem(colls, collection_name, <<>>),
                _send_error("Collection does not exist."))

_add(colls, key, value, collection_name) ==
    IF _collection_exists(colls, collection_name)
    THEN LET d == dict_getitem(colls, collection_name)
         IN IF Hashable(key)
            THEN LET d2 == dict_setitem(d, key, value)
                 IN Return(dict_setitem(colls, collection_name, d2),
                           Response(TRUE, None, collection_name,
                                    PyList(<<<<key, dict_getitem(d2, key)>>>>)))
            ELSE Return(colls, _send_error("Entry could not be added."))
    ELSE Return(colls, _send_error("Collection does not exist."))

\* _delete removing the oldest entry of the collection instead of key's.
_delete_oldest(colls, key, collection_name) ==
    IF _collection_exists(colls, collection_name)
    THEN LET d == dict_getitem(colls, collection_name)
         IN IF Hashable(key) /\ dict_contains(d, key)
            THEN Return(dict_setitem(colls, collection_name, Tail(d)),
                        Response(TRUE, None, collection_name, None))
            ELSE Return(colls, _send_error("Entry could not be deleted."))
    ELSE Return(colls, _send_error("Collection does not exist."))

\* _delete reporting success for a key the collection does not hold.
_delete_lenient(colls, key, collection_name) ==
    IF _collection_exists(colls, collection_name)
    THEN LET d == dict_getitem(colls, collection_name)
         IN IF Hashable(key) /\ dict_contains(d, key)
            THEN Return(dict_setitem(colls, collection_name, dict_delitem(d, key)),
                        Response(TRUE, None, collection_name, None))
            ELSE Return(colls, Response(TRUE, None, collection_name, None))
    ELSE Return(colls, _send_error("Collection does not exist."))

_delete(colls, key, collection_name) ==
    IF _collection_exists(colls, collection_name)
    THEN LET d == dict_getitem(colls, collection_name)
         IN IF Hashable(key) /\ dict_contains(d, key)
            THEN Return(dict_setitem(colls, collection_name, dict_delitem(d, key)),
                        Response(TRUE, None, collection_name, None))
            ELSE Return(colls, _send_error("Entry could not be deleted."))
    ELSE Return(colls, _send_error("Collection does not exist."))

(***************************************************************************)
(* Numbers and the type constructors of _parse_value_to_type.  A float is  *)
(* the exact decimal <<numerator, denominator>> its literal denotes.       *)
(***************************************************************************)
nums == "0123456789"

PyFloat(n, d) == [t |-> "float", v |-> <<n, d>>]
PyComplex(n, d) == [t |-> "complex", v |-> <<n, d>>]

\* The value of a decimal digit.
DigitVal(c) == (CHOOSE i \in 1..Len(nums) : char(nums, i) = c) - 1

IsDigits(s) == Len(s) > 0 /\ \A i \in 1..Len(s) : InChars(char(s, i), nums)

RECURSIVE DigitsVal(_)
DigitsVal(s) ==
    IF Len(s) = 0 THEN 0
    ELSE 10 * DigitsVal(SubSeq(s, 1, Len(s) - 1)) + DigitVal(char(s, Len(s)))

RECURSIVE Pow10(_)
Pow10(n) == IF n = 0 THEN 1 ELSE 10 * Pow10(n - 1)

\* The literal without a leading sign, and the sign.
Unsigned(s) ==
    IF Len(s) > 0 /\ char(s, 1) \in {"+", "-"} THEN SubSeq(s, 2, Len(s)) ELSE s

Sign(s) == IF Len(s) > 0 /\ char(s, 1) = "-" THEN -1 ELSE 1

\* Position of the first "." in s, or 0.
DotAt(s) ==
    IF \E i \in 1..Len(s) : char(s, i) = "."
    THEN CHOOSE i \in 1..Len(s) :
            char(s, i) = "." /\ \A j \in 1..(i - 1) : char(s, j) # "."
    ELSE 0

\* int(value): an optionally signed run of decimal digits, else ValueError.
\* (Literals with underscores are not among the literals the model draws.)
int(value) ==
    IF IsDigits(Unsigned(value))
    THEN [raised |-> FALSE, val |-> PyInt(Sign(value) * DigitsVal(Unsigned(value)))]
    ELSE [raised |-> TRUE, val |-> None]

\* The decimal literals float() accepts: digits, digits.digits, digits. and
\* .digits, optionally signed.  (Exponent, inf and nan literals are not
\* among the literals the model draws.)
IsDecimal(u) ==
    LET dot == DotAt(u)
        ip == SubSeq(u, 1, dot - 1)
        fp == SubSeq(u, dot + 1, Len(u))
    IN IF dot = 0 THEN IsDigits(u)
       ELSE /\ Len(ip) + Len(fp) > 0
            /\ Len(ip) = 0 \/ IsDigits(ip)
            /\ Len(fp) = 0 \/ IsDigits(fp)

DecimalVal(value) ==
    LET u == Unsigned(value)
        dot == DotAt(u)
        ip == IF dot = 0 THEN u ELSE SubSeq(u, 1, dot - 1)
        fp == IF dot = 0 THEN "" ELSE SubSeq(u, dot + 1, Len(u))
    IN <<Sign(value) * (DigitsVal(ip) * Pow10(Len(fp)) + DigitsVal(fp)), Pow10(Len(fp))>>

float(value) ==
    IF IsDecimal(Unsigned(value))
    THEN [raised |-> FALSE, val |-> [t |-> "float", v |-> DecimalVal(value)]]
    ELSE [raised |-> TRUE, val |-> None]

\* complex(value) of a real decimal literal: that real, imaginary part 0.
complex(value) ==
    IF IsDecimal(Unsigned(value))
    THEN [raised |-> FALSE, val |-> [t |-> "complex", v |-> DecimalVal(value)]]
    ELSE [raised |-> TRUE, val |-> None]

str(value) == [raised |-> FALSE, val |-> PyStr(value)]

\* _parse_value_to_type keeping the text when the type is not in the table.
_parse_value_to_type_lenient(value, value_type) ==
    CASE value_type = "int" -> int(value)
      [] value_type = "float" -> float(value)
      [] value_type = "complex" -> complex(value)
      [] OTHER -> str(value)

_parse_value_to_type(value, value_type) ==
    CASE value_type = "int" -> int(value)
      [] value_type = "float" -> float(value)
      [] value_type = "complex" -> complex(value)
      [] value_type = "str" -> str(value)
      [] OTHER -> [raised |-> TRUE, val |-> None]  \* KeyError

(***************************************************************************)
(* The comparison operators of the operator module, on Python objects.     *)
(***************************************************************************)
IsReal(x) == x.t \in {"int", "float"}

IsNumber(x) == x.t \in {"int", "float", "complex"}

\* A number as <<numerator, denominator>>, denominator > 0.
Ratio(x) == IF x.t = "int" THEN <<x.v, 1>> ELSE x.v

NumEq(a, b) == Ratio(a)[1] * Ratio(b)[2] = Ratio(b)[1] * Ratio(a)[2]

NumLt(a, b) == Ratio(a)[1] * Ratio(b)[2] < Ratio(b)[1] * Ratio(a)[2]

\* The printable characters in code order from 33, without the backquote
\* (code 96), which a TLA+ string cannot hold; no modelled text contains it.
printables ==
    "!\"#$%&'()*+,-./0123456789:;<=>?@ABCDEFGHIJKLMNOPQRSTUVWXYZ[\\]^_abcdefghijklmnopqrstuvwxyz{|}~"

\* ord(c) of a printable character.
ord(c) ==
    LET i == CHOOSE j \in 1..Len(printables) : char(printables, j) = c
    IN IF i <= 63 THEN 32 + i ELSE 33 + i

\* a < b on str: lexicographic by code point.
RECURSIVE StrLt(_, _)
StrLt(a, b) ==
    IF Len(b) = 0 THEN FALSE
    ELSE IF Len(a) = 0 THEN TRUE
    ELSE IF char(a, 1) = char(b, 1)
         THEN StrLt(SubSeq(a, 2, Len(a)), SubSeq(b, 2, Len(b)))
         ELSE ord(char(a, 1)) < ord(char(b, 1))

\* a == b
py_eq(a, b) ==
    IF IsNumber(a) /\ IsNumber(b) THEN NumEq(a, b)
    ELSE a.t = b.t /\ a.v = b.v

\* a < b is defined between two real numbers and between two strings.
Ordered(a, b) == (IsReal(a) /\ IsReal(b)) \/ (a.t = "str" /\ b.t = "str")

py_lt(a, b) == IF a.t = "str" THEN StrLt(a.v, b.v) ELSE NumLt(a, b)

\* b in a, for a str: substring test.
IsSubstring(b, a) ==
    \E i \in 1..(Len(a) - Len(b) + 1) : SubSeq(a, i, i + Len(b) - 1) = b

\* operators ordering objects of different types instead of raising.
operators_coerce(op, a, b) ==
    CASE op = "=" -> [raised |-> FALSE, val |-> py_eq(a, b)]
      [] op \in {"<", ">", "<=", ">="} ->
            IF ~Ordered(a, b) THEN [raised |-> FALSE, val |-> TRUE]
            ELSE [raised |-> FALSE,
                  val |-> CASE op = "<" -> py_lt(a, b)
                            [] op = ">" -> py_lt(b, a)
                            [] op = "<=" -> ~py_lt(b, a)
                            [] op = ">=" -> ~py_lt(a, b)]
      [] op = "contains" ->
            IF a.t = "str" /\ b.t = "str"
            THEN [raised |-> FALSE, val |-> IsSubstring(b.v, a.v)]
            ELSE [raised |-> FALSE, val |-> TRUE]

\* operators[op](a, b): the truth value, or raised (TypeError).
operators(op, a, b) ==
    CASE op = "=" -> [raised |-> FALSE, val |-> py_eq(a, b)]
      [] op \in {"<", ">", "<=", ">="} ->
            IF ~Ordered(a, b) THEN [raised |-> TRUE, val |-> FALSE]
            ELSE [raised |-> FALSE,
                  val |-> CASE op = "<" -> py_lt(a, b)
                            [] op = ">" -> py_lt(b, a)
                            [] op = "<=" -> ~py_lt(b, a)
                            [] op = ">=" -> ~py_lt(a, b)]
      [] op = "contains" ->
            IF a.t = "str" /\ b.t = "str"
            THEN [raised |-> FALSE, val |-> IsSubstring(b.v, a.v)]
            ELSE IF a.t = "list"
            THEN [raised |-> FALSE, val |-> \E i \in 1..Len(a.v) : py_eq(a.v[i], b)]
            ELSE [raised |-> TRUE, val |-> FALSE]

(***************************************************************************)
(* pyparsing.  A parser element is a record [kind, arg, name, exprs]: its  *)
(* class, its string or character set, its results name ("" for none) and, *)
(* for And and MatchFirst, its sub-elements.  parseImpl applies an element *)
(* to the text s at position loc (1-based), skipping leading whitespace,   *)
(* and yields [ok, loc, toks]: whether it matched, the position after the  *)
(* match and the named tokens as <<name, token>> pairs.                    *)
(***************************************************************************)
whitespace == " \t\n\r"

\* Keyword.DEFAULT_KEYWORD_CHARS
identChars == alphas \o nums \o "_$"

Literal(lit) == [kind |-> "Literal", arg |-> lit, name |-> "", exprs |-> <<>>]

Keyword(kw, name) == [kind |-> "Keyword", arg |-> kw, name |-> name, exprs |-> <<>>]

Word(chars, name) == [kind |-> "Word", arg |-> chars, name |-> name, exprs |-> <<>>]

\* e1 + e2 + ...
And(exprs) == [kind |-> "And", arg |-> "", name |-> "", exprs |-> exprs]

\* e1 | e2 | ...
MatchFirst(exprs) == [kind |-> "MatchFirst", arg |-> "", name |-> "", exprs |-> exprs]

NoMatch(loc) == [ok |-> FALSE, loc |-> loc, toks |-> <<>>]

Matched(e, loc, tok) ==
    [ok |-> TRUE, loc |-> loc,
     toks |-> IF e.name = "" THEN <<>> ELSE <<<<e.name, tok>>>>]

RECURSIVE skip_whitespace(_, _)
skip_whitespace(s, loc) ==
    IF loc <= Len(s) /\ InChars(char(s, loc), whitespace)
    THEN skip_whitespace(s, loc + 1)
    ELSE loc

\* s continues with lit at l.
StartsWith(s, l, lit) ==
    l + Len(lit) - 1 <= Len(s) /\ SubSeq(s, l, l + Len(lit) - 1) = lit

\* Keyword: the literal, neither preceded nor followed by an identifier
\* character.
KeywordAt(s, l, kw) ==
    /\ StartsWith(s, l, kw)
    /\ l + Len(kw) > Len(s) \/ ~InChars(char(s, l + Len(kw)), identChars)
    /\ l = 1 \/ ~InChars(char(s, l - 1), identChars)

\* Word: the position after the longest run of characters of chars from l.
RECURSIVE WordEnd(_, _, _)
WordEnd(s, l, chars) ==
    IF l <= Len(s) /\ InChars(char(s, l), chars)
    THEN WordEnd(s, l + 1, chars)
    ELSE l

RECURSIVE parseImpl(_, _, _)
RECURSIVE parseAnd(_, _, _, _, _)
RECURSIVE parseMatchFirst(_, _, _, _)

parseImpl(e, s, loc) ==
    LET l == skip_whitespace(s, loc)
    IN CASE e.kind = "Literal" ->
              IF StartsWith(s, l, e.arg)
              THEN Matched(e, l + Len(e.arg), e.arg) ELSE NoMatch(loc)
         [] e.kind = "Keyword" ->
              IF KeywordAt(s, l, e.arg)
              THEN Matched(e, l + Len(e.arg), e.arg) ELSE NoMatch(loc)
         [] e.kind = "Word" ->
              IF WordEnd(s, l, e.arg) > l
              THEN Matched(e, WordEnd(s, l, e.arg),
                           SubSeq(s, l, WordEnd(s, l, e.arg) - 1))
              ELSE NoMatch(loc)
         [] e.kind = "And" -> parseAnd(e.exprs, 1, s, loc, <<>>)
         [] e.kind = "MatchFirst" -> parseMatchFirst(e.exprs, 1, s, loc)

\* The elements from i on must match one after the other.
parseAnd(exprs, i, s, loc, toks) ==
    IF i > Len(exprs) THEN [ok |-> TRUE, loc |-> loc, toks |-> toks]
    ELSE LET m == parseImpl(exprs[i], s, loc)
         IN IF m.ok THEN parseAnd(exprs, i + 1, s, m.loc, toks \o m.toks)
            ELSE NoMatch(loc)

\* The first element from i on that matches.
parseMatchFirst(exprs, i, s, loc) ==
    IF i > Len(exprs) THEN NoMatch(loc)
    ELSE LET m == parseImpl(exprs[i], s, loc)
         IN IF m.ok THEN m ELSE parseMatchFirst(exprs, i + 1, s, loc)

\* name in results
HasName(toks, name) == \E i \in 1..Len(toks) : toks[i][1] = name

\* results[name]: the last token of that name ("" stands for a missing one).
GetName(toks, name) ==
    IF HasName(toks, name)
    THEN toks[CHOOSE i \in 1..Len(toks) :
                 toks[i][1] = name /\ \A j \in (i + 1)..Len(toks) : toks[j][1] # name][2]
    ELSE ""

(***************************************************************************)
(* The query grammar of _parse_query_string.                               *)
(***************************************************************************)
ACTION_QUERY == MatchFirst(<<Keyword("read", "action"), Keyword("delete", "action")>>)

ELEMENT == MatchFirst(<<Keyword("key", "element"), Keyword("value", "element")>>)

OPERATOR ==
    MatchFirst(<<Keyword("<=", "operator"), Keyword(">=", "operator"),
                 Keyword("<", "operator"), Keyword(">", "operator"),
                 Keyword("=", "operator"), Keyword("contains", "operator")>>)

VALUE ==
    MatchFirst(<<And(<<Word(printables, "value_type"), Literal("("),
                       Word(printables, "value"), Literal(")")>>),
                 Word(printables, "value")>>)

SYNTAX_QUERY ==
    And(<<ACTION_QUERY, ELEMENT, OPERATOR, VALUE, Literal("from"),
          Word(alphas, "collection1")>>)

SYNTAX_JOIN ==
    And(<<Keyword("join", "action"), Word(alphas, "collection1"), Literal("with"),
          Word(alphas, "collection2")>>)

SYNTAX == MatchFirst(<<SYNTAX_JOIN, SYNTAX_QUERY>>)

\* The parse results as the executor reads them.  value is the operand.
QueryOf(toks, value) ==
    [action |-> GetName(toks, "action"), element |-> GetName(toks, "element"),
     operator |-> GetName(toks, "operator"), value |-> value,
     collection1 |-> GetName(toks, "collection1"),
     collection2 |-> GetName(toks, "collection2")]

NoQuery == QueryOf(<<>>, None)

\* The cast of a typed value; raised: the exception of _parse_value_to_type.
CastValue(toks, x) ==
    [raised |-> x.raised,
     query |-> IF x.raised THEN NoQuery ELSE QueryOf(toks, x.val)]

\* What _parse_query_string makes of the match m of SYNTAX; raised:
\* ParseException, or the exception of the cast.
ParseResults(m) ==
    IF ~m.ok THEN [raised |-> TRUE, query |-> NoQuery]
    ELSE IF HasName(m.toks, "value_type")
    THEN CastValue(m.toks, _parse_value_to_type(GetName(m.toks, "value"),
                                                GetName(m.toks, "value_type")))
    ELSE [raised |-> FALSE,
          query |-> QueryOf(m.toks, PyStr(GetName(m.toks, "value")))]

\* query is the request's query object; parseString raises on a non-string.
parseString(query) ==
    IF query.t # "str" THEN [raised |-> TRUE, query |-> NoQuery]
    ELSE ParseResults(parseImpl(SYNTAX, query.v, 1))

\* The query texts clients send.
Queries ==
    { "join age with cars",
      "join cars with age",
      "join age with age",
      "join age with a",
      "join age with cars x",
      "read value >= int ( 20 ) from age",
      "read value < int ( 20 ) from age",
      "read value > float ( 22.5 ) from cars",
      "read value = 25 from age",
      "read key > 1 from age",
      "read key > 1234 from cars",
      "read key > int ( 1234 ) from cars",
      "read key >= int ( 2 ) from age",
      "read key < int ( 2 ) from cars",
      "read key = int ( 1 ) from age",
      "read key < int ( 5 ) from a",
      "delete value >= int ( 25 ) from age",
      "delete value < int ( 25 ) from cars",
      "delete value < int ( 25 ) from age",
      "delete key <= int ( 1 ) from cars",
      "delete key = int ( 1 ) from age",
      "read key > 1 age",
      "read value < int ( 20 from age",
      "read value < int ( abc ) from age",
      "read value < bool ( 1 ) from age",
      "fetch key = 1 from age",
      "read keys > 1 from age",
      "read key <> 1 from age",
      "delete value < int ( 20 ) age",
      "read value < int ( 4 ) from cars",
      "read value contains a from cars",
      "delete value < b from cars",
      "delete key contains 00 from cars",
      "delete value >= int ( 25 ) from age extra",
      "read key >= int ( 2 ) from age2" }

\* _parse_query_string, evaluated once for each query text clients send.
ParsedQueries == [q \in Queries |-> parseString(PyStr(q))]

_parse_query_string(query) ==
    IF query.t = "str" /\ query.v \in Queries
    THEN ParsedQueries[query.v]
    ELSE parseString(query)

(***************************************************************************)
(* Query executor.                                                         *)
(***************************************************************************)
\* query_actions[action]: None for "read", the bound method for "delete".
Method(name) == [t |-> "method", v |-> name]

\* query_actions mapping "read" to the bound method as well.
query_actions_delete(action) == Method("_delete_from_query")

query_actions(action) ==
    IF action = "read" THEN None ELSE Method("_delete_from_query")

\* _delete_from_query leaving the entry in place.
_delete_from_query_noop(colls, key, collection_name) ==
    [raised |-> FALSE, collections |-> colls]

\* del self.collections[collection_name][key]; raised: KeyError.
_delete_from_query(colls, key, collection_name) ==
    LET d == dict_getitem(colls, PyStr(collection_name))
    IN IF dict_contains(d, key)
       THEN [raised |-> FALSE,
             collections |-> dict_setitem(colls, PyStr(collection_name),
                                          dict_delitem(d, key))]
       ELSE [raised |-> TRUE, collections |-> colls]

\* by_value_loop putting each match in front of the earlier ones.
RECURSIVE by_value_loop_reversed(_, _, _, _, _, _, _)
by_value_loop_reversed(items, i, query_action, query, collection_name, matches, colls) ==
    IF i > Len(items) THEN [matches |-> matches, collections |-> colls]
    ELSE LET key == items[i][1]
             value == items[i][2]
             test == operators(query.operator, value, query.value)
         IN IF ~test.raised /\ test.val
            THEN LET act == IF query_action = None
                            THEN [raised |-> TRUE, collections |-> colls]
                            ELSE _delete_from_query(colls, key, collection_name)
                 IN by_value_loop_reversed(items, i + 1, query_action, query,
                        collection_name, <<<<key, value>>>> \o matches, act.collections)
            ELSE by_value_loop_reversed(items, i + 1, query_action, query,
                                        collection_name, matches, colls)

\* The loop of _execute_query_by_value from item i of the copy items on.
\* A raising comparison, and a raising query_action (None is not callable),
\* are swallowed; the match was appended before query_action ran.
RECURSIVE by_value_loop(_, _, _, _, _, _, _)
by_value_loop(items, i, query_action, query, collection_name, matches, colls) ==
    IF i > Len(items) THEN [matches |-> matches, collections |-> colls]
    ELSE LET key == items[i][1]
             value == items[i][2]
             test == operators(query.operator, value, query.value)
         IN IF ~test.raised /\ test.val
            THEN LET act == IF query_action = None
                            THEN [raised |-> TRUE, collections |-> colls]
                            ELSE _delete_from_query(colls, key, collection_name)
                 IN by_value_loop(items, i + 1, query_action, query, collection_name,
                                  Append(matches, <<key, value>>), act.collections)
            ELSE by_value_loop(items, i + 1, query_action, query, collection_name,
                               matches, colls)

_execute_query_by_value(colls, query_action, query, collection_name) ==
    by_value_loop(dict_getitem(colls, PyStr(collection_name)), 1, query_action,
                  query, collection_name, <<>>, colls)

\* by_key_loop applying the operator as operator(operand, key).
RECURSIVE by_key_loop_swapped(_, _, _, _)
by_key_loop_swapped(items, i, query, matches) ==
    IF i > Len(items) THEN matches
    ELSE LET test == operators(query.operator, query.value, items[i][1])
         IN by_key_loop_swapped(items, i + 1, query,
                                IF ~test.raised /\ test.val
                                THEN Append(matches, items[i])
                                ELSE matches)

\* The scan of _execute_query_by_key.  query_action(key) raises TypeError for
\* both actions (None is not callable; _delete_from_query is called without
\* its collection_name) and the exception is swallowed: nothing is deleted.
RECURSIVE by_key_loop(_, _, _, _)
by_key_loop(items, i, query, matches) ==
    IF i > Len(items) THEN matches
    ELSE LET test == operators(query.operator, items[i][1], query.value)
         IN by_key_loop(items, i + 1, query,
                        IF ~test.raised /\ test.val
                        THEN Append(matches, items[i])
                        ELSE matches)

\* With operator "=" the lookup reads self.data, which the server does not
\* have: AttributeError before anything is appended, swallowed.
_execute_query_by_key(colls, query_action, query, collection_name) ==
    IF query.operator = "="
    THEN [matches |-> <<>>, collections |-> colls]
    ELSE [matches |-> by_key_loop(dict_getitem(colls, PyStr(collection_name)), 1,
                                  query, <<>>),
          collections |-> colls]

\* join_loop putting each value in front of its key's list.
RECURSIVE join_loop_prepend(_, _, _)
join_loop_prepend(items, i, matches) ==
    IF i > Len(items) THEN matches
    ELSE LET key == items[i][1]
             old == IF dict_contains(matches, key)
                    THEN dict_getitem(matches, key).v ELSE <<>>
         IN join_loop_prepend(items, i + 1,
                dict_setitem(matches, key, PyList(<<items[i][2]>> \o old)))

\* join_loop keeping only the last value of each key.
RECURSIVE join_loop_last(_, _, _)
join_loop_last(items, i, matches) ==
    IF i > Len(items) THEN matches
    ELSE join_loop_last(items, i + 1,
                        dict_setitem(matches, items[i][1], PyList(<<items[i][2]>>)))

\* matches[key].append(value) for the items from i on (matches: defaultdict).
RECURSIVE join_loop(_, _, _)
join_loop(items, i, matches) ==
    IF i > Len(items) THEN matches
    ELSE LET key == items[i][1]
             old == IF dict_contains(matches, key)
                    THEN dict_getitem(matches, key).v ELSE <<>>
         IN join_loop(items, i + 1,
                      dict_setitem(matches, key, PyList(Append(old, items[i][2]))))

\* The join of the two collections' items, collection1's first.
Join(colls, q) ==
    Response(TRUE, None, PyList(<<PyStr(q.collection1), PyStr(q.collection2)>>),
             PyDict(join_loop(dict_getitem(colls, PyStr(q.collection1))
                                \o dict_getitem(colls, PyStr(q.collection2)),
                              1, <<>>)))

\* query_elements[query["element"]](query_action, query, operators, collection1)
query_elements(colls, query_action, q) ==
    IF q.element = "key"
    THEN _execute_query_by_key(colls, query_action, q, q.collection1)
    ELSE _execute_query_by_value(colls, query_action, q, q.collection1)

Matches(r, q) ==
    Return(r.collections, Response(TRUE, None, PyStr(q.collection1), PyList(r.matches)))

\* Execute testing collection2 of a join before collection1.
Execute_second_first(colls, p, q) ==
    IF p.raised THEN Return(colls, _send_error("Invalid query syntax."))
    ELSE IF q.action = "join" /\ ~_collection_exists(colls, PyStr(q.collection2))
    THEN Return(colls, _send_error(q.collection2 \o " does not exist."))
    ELSE IF ~_collection_exists(colls, PyStr(q.collection1))
    THEN Return(colls, _send_error(q.collection1 \o " does not exist."))
    ELSE IF q.action = "join"
    THEN Return(colls, Join(colls, q))
    ELSE Matches(query_elements(colls, query_actions(q.action), q), q)

\* The body of _query once the query text is parsed to p.
Execute(colls, p, q) ==
    IF p.raised THEN Return(colls, _send_error("Invalid query syntax."))
    ELSE IF ~_collection_exists(colls, PyStr(q.collection1))
    THEN Return(colls, _send_error(q.collection1 \o " does not exist."))
    ELSE IF q.action = "join"
    THEN IF ~_collection_exists(colls, PyStr(q.collection2))
         THEN Return(colls, _send_error(q.collection2 \o " does not exist."))
         ELSE Return(colls, Join(colls, q))
    ELSE Matches(query_elements(colls, query_actions(q.action), q), q)

Parsed(colls, p) == Execute(colls, p, p.query)

_query(colls, query) == Parsed(colls, _parse_query_string(query))

(***************************************************************************)
(* Requests (Models/request.py, as src/client.py builds them).             *)
(***************************************************************************)
Request(request_type, collection_name, key, value, query) ==
    [request_type |-> request_type, collection_name |-> collection_name,
     key |-> key, value |-> value, query |-> query]

\* The collection names, keys and values clients send; the key [] is not
\* hashable.
Names == {PyStr("age"), PyStr("cars"), PyStr("a1")}

Keys == {PyInt(1), PyInt(2), PyList(<<>>)}

Values == {PyInt(20 + 5 * i) : i \in 0..(MaxVal - 1)}

(***************************************************************************)
(* _listen: one request is received, dispatched through request_types and  *)
(* answered.  An exception no handler catches ends the server.             *)
(***************************************************************************)
\* The snapshot job between two passes.
IdleJob == [pc |-> "idle", items |-> <<>>, size |-> -1, pos |-> 0, out |-> <<>>]

\* A value of the copy self.collections.copy(): the reference to a
\* collection's dict.  It is live while self.collections still holds that
\* dict under the name; once the collection was deleted the dict is only the
\* copy's, with the content data it had then.
Live == [live |-> TRUE, data |-> <<>>]

Content(colls, item) ==
    IF item[2].live THEN dict_getitem(colls, item[1]) ELSE item[2].data

\* The copy's items after a request that left the store as colls.
Detach(items, colls) ==
    [i \in 1..Len(items) |->
        IF items[i][2].live /\ ~_collection_exists(colls, items[i][1])
        THEN <<items[i][1], [live |-> FALSE, data |-> dict_getitem(collections, items[i][1])]>>
        ELSE items[i]]

\* The dict iterator's position in the dict being pickled after a request
\* that left the store as colls: the entries it passed that are still there
\* (a deleted entry leaves the later ones in place).
Consumed(colls) ==
    IF job.pc = "dump" /\ job.pos > 0 /\ job.items[1][2].live
         /\ _collection_exists(colls, job.items[1][1])
    THEN LET old == dict_getitem(collections, job.items[1][1])
         IN Cardinality({j \in 1..job.pos :
                dict_contains(dict_getitem(colls, job.items[1][1]), old[j][1])})
    ELSE job.pos

\* What a request that leaves the store as colls means to a snapshot pass
\* under way: the job's thread and the request's run on the same objects.
Interleave(colls) ==
    IF job.pc = "idle" THEN UNCHANGED <<job, written, instants>>
    ELSE /\ Len(instants) <= MaxDuring
         /\ instants' = Append(instants, colls)
         /\ job' = [job EXCEPT !.items = Detach(job.items, colls),
                               !.pos = Consumed(colls)]
         /\ UNCHANGED written

\* The request req was handled with outcome out.
Serve(req, out) ==
    /\ server = "listening"
    /\ Interleave(out.collections)
    /\ UNCHANGED <<Data, collection_names>>
    /\ request' = req
    /\ before' = collections
    /\ collections' = out.collections
    /\ response' = out.response
    /\ server' = IF out.raised THEN "crashed" ELSE "listening"

\* request_types[0]
Read ==
    \E n \in Names, k \in Keys :
        Serve(Request(0, n, k, None, None), _read(collections, k, n))

\* request_types[1]
Add ==
    \E n \in Names, k \in Keys, x \in Values :
        Serve(Request(1, n, k, x, None), _add(collections, k, x, n))

\* request_types[2]
Delete ==
    \E n \in Names, k \in Keys :
        Serve(Request(2, n, k, None, None), _delete(collections, k, n))

\* request_types[3]
Query ==
    \E q \in Queries :
        Serve(Request(3, None, None, None, PyStr(q)), _query(collections, PyStr(q)))

\* request_types[4]
CreateCollection ==
    \E n \in Names :
        Serve(Request(4, n, None, None, None), _create_collection(collections, n))

\* request_types[5]
DeleteCollection ==
    \E n \in Names :
        Serve(Request(5, n, None, None, None), _delete_collection(collections, n))

\* request_types.get(request_type, 6)() for a type the client never sends:
\* type 6 is entry 6 of the table; for any other type get returns the
\* number 6, and calling it raises TypeError.
request_types_other(colls, request_type) ==
    IF request_type = 6
    THEN Return(colls, _send_error("Request type does not exist."))
    ELSE Raise(colls)

OtherType ==
    \E ty \in {6, 7} :
        Serve(Request(ty, None, None, None, None), request_types_other(collections, ty))

\* NoRequest: nothing was received yet.
NoRequest == Request(-1, None, None, None, None)

\* The server starts without a config.ini: collection_names is [].
Init ==
    /\ collections = <<>>
    /\ before = <<>>
    /\ request = NoRequest
    /\ response = None
    /\ server = "listening"
    /\ job = IdleJob
    /\ written = <<>>
    /\ instants = <<>>
    /\ Data = {}
    /\ collection_names = <<>>

Next ==
    \/ Read
    \/ Add
    \/ Delete
    \/ Query
    \/ CreateCollection
    \/ DeleteCollection
    \/ OtherType

Spec == Init /\ [][Next]_vars

(***************************************************************************)
(* The server with the clients of the cars example: they create cars, put  *)
(* its three entries under integer keys and under text keys, with text and *)
(* integer values, and query it by key and by value.                       *)
(***************************************************************************)
CarsEntries ==
    { <<PyInt(1000), PyStr("a")>>, <<PyInt(2000), PyStr("b")>>,
      <<PyInt(1234), PyStr("c")>>,
      <<PyStr("1000"), PyStr("a")>>, <<PyStr("2000"), PyStr("b")>>,
      <<PyStr("1234"), PyStr("c")>>,
      <<PyStr("1234"), PyInt(3)>> }

CarsQueries ==
    { "read key > 1234 from cars", "read key > int ( 1234 ) from cars",
      "read value < int ( 4 ) from cars", "read value contains a from cars",
      "delete value < b from cars", "delete key contains 00 from cars" }

CarsCreate ==
    Serve(Request(4, PyStr("cars"), None, None, None),
          _create_collection(collections, PyStr("cars")))

CarsAdd ==
    \E e \in CarsEntries :
        Serve(Request(1, PyStr("cars"), e[1], e[2], None),
              _add(collections, e[1], e[2], PyStr("cars")))

CarsDelete ==
    \E e \in CarsEntries :
        Serve(Request(2, PyStr("cars"), e[1], None, None),
              _delete(collections, e[1], PyStr("cars")))

CarsQuery ==
    \E q \in CarsQueries :
        Serve(Request(3, None, None, None, PyStr(q)), _query(collections, PyStr(q)))

NextCars ==
    \/ CarsCreate
    \/ CarsAdd
    \/ CarsDelete
    \/ CarsQuery

SpecCars == Init /\ [][NextCars]_vars

(***************************************************************************)
(* _create_snapshot, run by the BackgroundScheduler's thread beside        *)
(* _listen.  Nothing synchronises the two threads.  pickle.dump walks the  *)
(* live dict entry by entry; the interpreter may switch threads between    *)
(* two entries, and a dict whose size differs at the end of the walk       *)
(* raises RuntimeError.                                                    *)
(***************************************************************************)
\* The content of a file: the complete pickle of a dict, or bytes that are
\* not one (the file was opened for writing and the dump did not finish).
Pickle(d) == [t |-> "pickle", v |-> d]

Incomplete == [t |-> "bytes", v |-> <<>>]

\* The files after Data/<name>.pickle was given the content.
WriteFile(files, name, content) ==
    {f \in files : f[1] # name} \cup {<<name, content>>}

\* The scheduler's tick: os.makedirs and self.collections.copy().
SnapshotStart ==
    /\ server = "listening"
    /\ job.pc = "idle"
    /\ job' = [IdleJob EXCEPT !.pc = "loop",
                              !.items = [i \in 1..Len(collections) |->
                                            <<collections[i][1], Live>>]]
    /\ written' = <<>>
    /\ instants' = <<collections>>
    /\ UNCHANGED <<collections, request, response, server, before, Data, collection_names>>

\* SnapshotOpen deleting the files the pass has written when open fails.
SnapshotOpen_rollback ==
    /\ job.pc = "loop"
    /\ Len(job.items) > 0
    /\ \E opened \in BOOLEAN :
          IF opened
          THEN /\ job' = [job EXCEPT !.pc = "dump", !.size = -1, !.pos = 0, !.out = <<>>]
               /\ Data' = WriteFile(Data, job.items[1][1], Incomplete)
          ELSE /\ job' = [job EXCEPT !.pc = "failed"]
               /\ Data' = {f \in Data : \A w \in 1..Len(written) : written[w][1] # f[1]}
    /\ UNCHANGED <<collections, request, response, server, before, written, instants,
                   collection_names>>

\* The for loop takes the next item of the copy and opens its file for
\* writing, which empties it; open may fail (the file is not writable): the
\* except clause raises PermissionError and the pass ends.
SnapshotOpen ==
    /\ job.pc = "loop"
    /\ Len(job.items) > 0
    /\ \E opened \in BOOLEAN :
          IF opened
          THEN /\ job' = [job EXCEPT !.pc = "dump", !.size = -1, !.pos = 0, !.out = <<>>]
               /\ Data' = WriteFile(Data, job.items[1][1], Incomplete)
          ELSE /\ job' = [job EXCEPT !.pc = "failed"]
               /\ Data' = Data
    /\ UNCHANGED <<collections, request, response, server, before, written, instants,
                   collection_names>>

\* pickle.dump(collection_data, handle), one step of the walk: the next
\* entry is pickled; past the last entry the size is compared with the size
\* at the start (RuntimeError: the except clause raises PermissionError and
\* the pass ends, the file is left incomplete), and the file is complete.
SnapshotDump ==
    /\ job.pc = "dump"
    /\ LET content == Content(collections, job.items[1])
           size == IF job.size < 0 THEN Len(content) ELSE job.size
       IN IF job.pos < Len(content)
          THEN /\ job' = [job EXCEPT !.size = size, !.pos = job.pos + 1,
                                     !.out = Append(job.out, content[job.pos + 1])]
               /\ UNCHANGED <<written, Data>>
          ELSE IF Len(content) # size
          THEN /\ job' = [job EXCEPT !.pc = "failed"]
               /\ UNCHANGED <<written, Data>>
          ELSE /\ job' = [job EXCEPT !.pc = "loop", !.items = Tail(job.items)]
               /\ written' = Append(written, <<job.items[1][1], job.out>>)
               /\ Data' = WriteFile(Data, job.items[1][1], Pickle(job.out))
    /\ UNCHANGED <<collections, request, response, server, before, instants,
                   collection_names>>

\* SnapshotReturn in which a job that raised never comes back.
SnapshotReturn_stuck ==
    /\ job.pc = "loop" /\ Len(job.items) = 0
    /\ job' = IdleJob
    /\ written' = <<>>
    /\ instants' = <<>>
    /\ UNCHANGED <<collections, request, response, server, before, Data, collection_names>>

\* _create_snapshot returns, or its PermissionError reaches the scheduler,
\* which logs it: the job stays scheduled and waits for the next tick.
SnapshotReturn ==
    /\ \/ job.pc = "loop" /\ Len(job.items) = 0
       \/ job.pc = "failed"
    /\ job' = IdleJob
    /\ written' = <<>>
    /\ instants' = <<>>
    /\ UNCHANGED <<collections, request, response, server, before, Data, collection_names>>

\* The entries the clients put during snapshots, two keys in age, and the
\* collections they create and delete.
SnapEntries ==
    { <<PyStr("age"), PyInt(1), PyInt(20)>>, <<PyStr("age"), PyInt(2), PyInt(20)>> }

SnapNames == {PyStr("age"), PyStr("cars")}

SnapCreate ==
    \E n \in SnapNames :
        Serve(Request(4, n, None, None, None), _create_collection(collections, n))

SnapDeleteCollection ==
    \E n \in SnapNames :
        Serve(Request(5, n, None, None, None), _delete_collection(collections, n))

SnapAdd ==
    \E e \in SnapEntries :
        Serve(Request(1, e[1], e[2], e[3], None), _add(collections, e[2], e[3], e[1]))

SnapDelete ==
    \E e \in SnapEntries :
        Serve(Request(2, e[1], e[2], None, None), _delete(collections, e[2], e[1]))

SnapQuery ==
    Serve(Request(3, None, None, None, PyStr("delete value < int ( 25 ) from age")),
          _query(collections, PyStr("delete value < int ( 25 ) from age")))

NextSnapshot ==
    \/ SnapCreate
    \/ SnapDeleteCollection
    \/ SnapAdd
    \/ SnapDelete
    \/ SnapQuery
    \/ SnapshotStart
    \/ SnapshotOpen
    \/ SnapshotDump
    \/ SnapshotReturn

SpecSnapshot == Init /\ [][NextSnapshot]_vars

\* The scheduler's timer keeps firing at its interval, and a job that has
\* ended, by returning or by raising, is handed back to the scheduler.
SpecSnapshotFair ==
    SpecSnapshot /\ WF_vars(SnapshotStart) /\ WF_vars(SnapshotReturn)

(***************************************************************************)
(* Start-up: _read_config and _init_db.  The server is started in a        *)
(* directory without files, or started again (Restart) on the files its    *)
(* snapshots left in Data.                                                 *)
(***************************************************************************)
\* pickle.loads of a complete pickle: the dict built by setting its entries
\* one after another (the walk of a dict that changed meanwhile may have
\* pickled a key twice; the later entry wins).
RECURSIVE loads(_, _)
loads(entries, d) ==
    IF Len(entries) = 0 THEN d
    ELSE loads(Tail(entries), dict_setitem(d, Head(entries)[1], Head(entries)[2]))

\* The loop of _init_db from name i on.  A missing file raises IOError and
\* gives an empty collection; bytes that are not a pickle make pickle.loads
\* raise an exception that is not an IOError, which nothing catches.
RECURSIVE init_db_loop(_, _, _, _)
init_db_loop(names, i, files, colls) ==
    IF i > Len(names) THEN [raised |-> FALSE, collections |-> colls]
    ELSE IF \A f \in files : f[1] # names[i]
    THEN init_db_loop(names, i + 1, files, dict_setitem(colls, names[i], <<>>))
    ELSE LET content == (CHOOSE f \in files : f[1] = names[i])[2]
         IN IF content.t = "pickle"
            THEN init_db_loop(names, i + 1, files,
                              dict_setitem(colls, names[i], loads(content.v, <<>>)))
            ELSE [raised |-> TRUE, collections |-> colls]

_init_db(names, files) == init_db_loop(names, 1, files, <<>>)

\* The values of "collections" in config.ini, split at the commas; without
\* a config.ini collection_names is [].
Configs ==
    { <<>>,
      <<PyStr("age"), PyStr("cars")>>,
      <<PyStr("age"), PyStr("a1")>> }

\* The server is started in a directory without files.
InitConfigured ==
    /\ collection_names \in Configs
    /\ Data = {}
    /\ collections = _init_db(collection_names, {}).collections
    /\ before = <<>>
    /\ request = NoRequest
    /\ response = None
    /\ server = "listening"
    /\ job = IdleJob
    /\ written = <<>>
    /\ instants = <<>>

\* The process ends, whatever its threads are doing, and the server is
\* started again: __init__ reads the same config.ini and the files of Data.
Restart ==
    /\ collections' = _init_db(collection_names, Data).collections
    /\ server' = IF _init_db(collection_names, Data).raised
                 THEN "crashed" ELSE "listening"
    /\ request' = NoRequest
    /\ response' = None
    /\ before' = <<>>
    /\ job' = IdleJob
    /\ written' = <<>>
    /\ instants' = <<>>
    /\ UNCHANGED <<Data, collection_names>>

NextRestart ==
    \/ SnapCreate
    \/ SnapDeleteCollection
    \/ SnapAdd
    \/ SnapDelete
    \/ SnapQuery
    \/ SnapshotStart
    \/ SnapshotOpen
    \/ SnapshotDump
    \/ SnapshotReturn
    \/ Restart

SpecRestart == InitConfigured /\ [][NextRestart]_vars

(***************************************************************************)
(* Properties.                                                             *)
(***************************************************************************)
\* The failure Responses of the store.
NotFound == _send_error("Collection does not exist.")

AlreadyExists == _send_error("Collection already exists.")

EntryNotFoundOnGet == _send_error("Entry does not exist.")

EntryNotFoundOnRemove == _send_error("Entry could not be deleted.")

\* The names of the collections of colls, in order.
NamesOf(colls) == [i \in 1..Len(colls) |-> colls[i][1]]

\* The entries of d whose key is not k, in order.
RECURSIVE Without(_, _)
Without(d, k) ==
    IF Len(d) = 0 THEN <<>>
    ELSE IF Head(d)[1] = k THEN Without(Tail(d), k)
    ELSE <<Head(d)>> \o Without(Tail(d), k)

\* Collection c of colls holds key k.
Holds(colls, c, k) ==
    _collection_exists(colls, c) /\ dict_contains(dict_getitem(colls, c), k)

\* The collections of colls other than c are those of old, unchanged.
OthersUnchanged(colls, old, c) ==
    \A n \in Names \ {c} :
        /\ _collection_exists(colls, n) <=> _collection_exists(old, n)
        /\ _collection_exists(old, n) => dict_getitem(colls, n) = dict_getitem(old, n)

\* The request just served was a put that succeeded.
PutSucceeded == request.request_type = 1 /\ response.success

\* C1: after a successful put(c, k, v), get(c, k) succeeds and returns
\* exactly the pair (k, v), and k is a single entry of c, also when k had
\* another value before the put.
C1_PutThenGet ==
    PutSucceeded =>
        LET got == _read(collections, request.key, request.collection_name)
            d == dict_getitem(collections, request.collection_name)
        IN /\ ~got.raised
           /\ got.response =
                Response(TRUE, None, request.collection_name,
                         PyList(<<<<request.key, request.value>>>>))
           /\ Cardinality({i \in 1..Len(d) : d[i][1] = request.key}) = 1

\* A put has just overwritten another value of its key.
C1_Witness ==
    /\ PutSucceeded
    /\ Holds(before, request.collection_name, request.key)
    /\ dict_getitem(dict_getitem(before, request.collection_name), request.key)
         # request.value

\* C2: after a successful remove(c, k), get(c, k) and a second
\* remove(c, k) fail with EntryNotFound, the other entries of c and the other
\* collections are unchanged, and k comes back into c only by a successful
\* put(c, k, _).
C2_RemoveThenAbsent ==
    [][/\ (request'.request_type = 2 /\ response'.success) =>
            LET c == request'.collection_name
                k == request'.key
            IN /\ _read(collections', k, c) = Return(collections', EntryNotFoundOnGet)
               /\ _delete(collections', k, c) = Return(collections', EntryNotFoundOnRemove)
               /\ dict_getitem(collections', c) = Without(dict_getitem(collections, c), k)
               /\ NamesOf(collections') = NamesOf(collections)
               /\ OthersUnchanged(collections', collections, c)
       /\ \A c \in Names, k \in Keys :
            (~Holds(collections, c, k) /\ Holds(collections', c, k)) =>
                /\ request'.request_type = 1 /\ response'.success
                /\ request'.collection_name = c /\ request'.key = k
      ]_vars

\* A remove has just succeeded on a collection that keeps another entry,
\* beside another collection that holds entries.
C2_Witness ==
    /\ request.request_type = 2 /\ response.success
    /\ Len(dict_getitem(collections, request.collection_name)) > 0
    /\ \E n \in Names \ {request.collection_name} :
          _collection_exists(collections, n) /\ Len(dict_getitem(collections, n)) > 0

\* C3: createCollection(n) of an all-alphabetic name n that is not present
\* succeeds and creates an empty collection, after which exists(n) is true;
\* while n is present it fails with AlreadyExists and changes nothing.
C3_CreateCollection ==
    (request.request_type = 4 /\ request.collection_name.t = "str"
        /\ isalpha(request.collection_name.v)) =>
        IF ~_collection_exists(before, request.collection_name)
        THEN /\ response = Response(TRUE, None, request.collection_name, None)
             /\ _collection_exists(collections, request.collection_name)
             /\ dict_getitem(collections, request.collection_name) = <<>>
        ELSE /\ response = AlreadyExists
             /\ collections = before

\* A createCollection has just failed on a collection that holds entries.
C3_Witness ==
    /\ request.request_type = 4
    /\ response = AlreadyExists
    /\ Len(dict_getitem(collections, request.collection_name)) > 0

\* C4: get, put and remove on a collection that is not present fail with
\* the collection's NotFound whatever the key; remove of a key an existing
\* collection does not hold fails with EntryNotFound.
C4_NotFoundFirst ==
    request.request_type \in {0, 1, 2} =>
        /\ ~_collection_exists(before, request.collection_name) => response = NotFound
        /\ (/\ request.request_type = 2
            /\ _collection_exists(before, request.collection_name)
            /\ ~Holds(before, request.collection_name, request.key))
           => response = EntryNotFoundOnRemove

\* A remove has just failed on a key that an existing, non-empty collection
\* does not hold.
C4_Witness ==
    /\ request.request_type = 2
    /\ _collection_exists(before, request.collection_name)
    /\ Len(dict_getitem(before, request.collection_name)) > 0
    /\ ~Holds(before, request.collection_name, request.key)
    /\ ~response.success

\* The request just served was a query whose text parsed.
QueryParsed ==
    request.request_type = 3 /\ ~_parse_query_string(request.query).raised

\* The parsed query of the request just served.
Q == _parse_query_string(request.query).query

\* The message of the failure that names the missing collection c.
Missing(c) == _send_error(c \o " does not exist.")

\* The query text q refers to the collection named n.
RefersTo(q, n) ==
    /\ ~ParsedQueries[q].raised
    /\ \/ ParsedQueries[q].query.collection1 = n
       \/ ParsedQueries[q].query.collection2 = n

\* C5: after deleteCollection(n) succeeds exists(n) is false, get, put,
\* remove and every query on n fail with the collection-not-found failure, a
\* createCollection(n) then yields an empty collection and the other
\* collections are unchanged; deleteCollection of an absent name fails with
\* NotFound.
C5_DeleteCollection ==
    request.request_type = 5 =>
        LET n == request.collection_name
        IN IF _collection_exists(before, n)
           THEN /\ response = Response(TRUE, None, None, None)
                /\ ~_collection_exists(collections, n)
                /\ \A k \in Keys :
                     /\ _read(collections, k, n) = Return(collections, NotFound)
                     /\ _delete(collections, k, n) = Return(collections, NotFound)
                     /\ \A x \in Values :
                          _add(collections, k, x, n) = Return(collections, NotFound)
                /\ \A q \in Queries :
                     RefersTo(q, n.v) =>
                        /\ _query(collections, PyStr(q)).collections = collections
                        /\ _query(collections, PyStr(q)).response \in
                             {Missing(ParsedQueries[q].query.collection1),
                              Missing(ParsedQueries[q].query.collection2)}
                /\ dict_getitem(_create_collection(collections, n).collections, n) = <<>>
                /\ OthersUnchanged(collections, before, n)
           ELSE response = NotFound /\ collections = before

\* A deleteCollection has just removed a collection that held entries,
\* beside another collection that holds entries.
C5_Witness ==
    /\ request.request_type = 5 /\ response.success
    /\ Len(dict_getitem(before, request.collection_name)) > 0
    /\ \E n \in Names :
          _collection_exists(collections, n) /\ Len(dict_getitem(collections, n)) > 0

\* The request just served was a join of two collections that exist.
JoinServed ==
    /\ QueryParsed
    /\ Q.action = "join"
    /\ _collection_exists(before, PyStr(Q.collection1))
    /\ _collection_exists(before, PyStr(Q.collection2))

\* C6: the join of two existing collections maps exactly the keys of either
\* collection; a key of both to [c1[k], c2[k]], a key of one collection to
\* the one-element list of its value there.
C6_JoinIsOuterUnion ==
    JoinServed =>
        LET d1 == dict_getitem(before, PyStr(Q.collection1))
            d2 == dict_getitem(before, PyStr(Q.collection2))
            m == response.data.v
        IN /\ response.success /\ response.data.t = "dict"
           /\ dict_keys(m) = dict_keys(d1) \cup dict_keys(d2)
           /\ Len(m) = Cardinality(dict_keys(m))
           /\ \A k \in dict_keys(m) :
                /\ dict_getitem(m, k).t = "list"
                /\ Len(dict_getitem(m, k).v) \in {1, 2}
                /\ dict_getitem(m, k).v =
                     (IF dict_contains(d1, k) THEN <<dict_getitem(d1, k)>> ELSE <<>>)
                     \o (IF dict_contains(d2, k) THEN <<dict_getitem(d2, k)>> ELSE <<>>)

\* A join has just been served in which one key is in both collections, with
\* different values, and another key is in only one of them.
C6_Witness ==
    /\ JoinServed
    /\ LET d1 == dict_getitem(before, PyStr(Q.collection1))
           d2 == dict_getitem(before, PyStr(Q.collection2))
       IN /\ \E k \in dict_keys(d1) \cap dict_keys(d2) :
                dict_getitem(d1, k) # dict_getitem(d2, k)
          /\ dict_keys(d1) # dict_keys(d2)

RECURSIVE Reverse(_)
Reverse(xs) == IF Len(xs) = 0 THEN <<>> ELSE Reverse(Tail(xs)) \o <<Head(xs)>>

\* The text of the join of collection a with collection b.
JoinText(a, b) == "join " \o a \o " with " \o b

\* C7: join(A, B) and join(B, A) of existing collections have the same
\* keys; the list of a key of both collections is reversed, the list of a key
\* of one collection is the same.
C7_JoinMirrored ==
    (JoinServed /\ request.query.v = JoinText(Q.collection1, Q.collection2)) =>
        LET d1 == dict_getitem(before, PyStr(Q.collection1))
            d2 == dict_getitem(before, PyStr(Q.collection2))
            ab == response.data.v
            ba == _query(collections,
                         PyStr(JoinText(Q.collection2, Q.collection1))).response.data.v
        IN /\ dict_keys(ab) = dict_keys(ba)
           /\ \A k \in dict_keys(ab) :
                IF dict_contains(d1, k) /\ dict_contains(d2, k)
                THEN dict_getitem(ba, k).v = Reverse(dict_getitem(ab, k).v)
                ELSE dict_getitem(ba, k) = dict_getitem(ab, k)

\* A join of two different collections has just been served in which a key
\* of both has different values and the key sets differ.
C7_Witness ==
    /\ JoinServed
    /\ request.query.v = JoinText(Q.collection1, Q.collection2)
    /\ Q.collection1 # Q.collection2
    /\ LET d1 == dict_getitem(before, PyStr(Q.collection1))
           d2 == dict_getitem(before, PyStr(Q.collection2))
       IN /\ \E k \in dict_keys(d1) \cap dict_keys(d2) :
                dict_getitem(d1, k) # dict_getitem(d2, k)
          /\ dict_keys(d2) \ dict_keys(d1) # {}

\* C8: a query that parses fails with the failure naming the missing
\* collection when a collection it refers to is absent (collection1 is
\* tested before collection2 of a join), and nothing is modified.
C8_MissingCollection ==
    QueryParsed =>
        /\ ~_collection_exists(before, PyStr(Q.collection1)) =>
              response = Missing(Q.collection1) /\ collections = before
        /\ (/\ Q.action = "join"
            /\ _collection_exists(before, PyStr(Q.collection1))
            /\ ~_collection_exists(before, PyStr(Q.collection2))) =>
              response = Missing(Q.collection2) /\ collections = before

\* A join has just failed whose two collections were both absent and
\* differently named.
C8_Witness ==
    /\ QueryParsed
    /\ Q.action = "join"
    /\ Q.collection1 # Q.collection2
    /\ ~_collection_exists(before, PyStr(Q.collection1))
    /\ ~_collection_exists(before, PyStr(Q.collection2))
    /\ Len(before) > 0
    /\ ~response.success

\* op(v, operand) holds: the comparison is defined and true.
Satisfies(op, v, operand) ==
    ~operators(op, v, operand).raised /\ operators(op, v, operand).val

\* The entries of d, in order, whose value satisfies op with operand.
RECURSIVE ByValue(_, _, _)
ByValue(d, op, operand) ==
    IF Len(d) = 0 THEN <<>>
    ELSE (IF Satisfies(op, Head(d)[2], operand) THEN <<Head(d)>> ELSE <<>>)
         \o ByValue(Tail(d), op, operand)

\* The collection age as put(2, 25) then put(1, 20) build it.
AgeExample == <<<<PyInt(2), PyInt(25)>>, <<PyInt(1), PyInt(20)>>>>

\* C9: 'read value <op> <operand> from c' returns exactly the entries of c
\* whose value satisfies the operator, in c's insertion order; with age built
\* by put(2, 25), put(1, 20), '< int ( 20 )' returns [] and '>= int ( 20 )'
\* returns [(2, 25), (1, 20)].
C9_ReadByValue ==
    (/\ QueryParsed
     /\ Q.action = "read" /\ Q.element = "value"
     /\ _collection_exists(before, PyStr(Q.collection1))) =>
        LET d == dict_getitem(before, PyStr(Q.collection1))
        IN /\ response =
                Response(TRUE, None, PyStr(Q.collection1),
                         PyList(ByValue(d, Q.operator, Q.value)))
           /\ (d = AgeExample /\ request.query.v = "read value < int ( 20 ) from age")
                => response.data = PyList(<<>>)
           /\ (d = AgeExample /\ request.query.v = "read value >= int ( 20 ) from age")
                => response.data = PyList(AgeExample)

\* 'read value >= int ( 20 ) from age' has just been served on the age of
\* the example, whose key 2 was put before key 1.
C9_Witness ==
    /\ QueryParsed
    /\ request.query.v = "read value >= int ( 20 ) from age"
    /\ _collection_exists(before, PyStr("age"))
    /\ dict_getitem(before, PyStr("age")) = AgeExample
    /\ response.success

\* The cars of the example under integer keys, and under text keys.
CarsInt ==
    <<<<PyInt(1000), PyStr("a")>>, <<PyInt(2000), PyStr("b")>>,
      <<PyInt(1234), PyStr("c")>>>>

CarsText ==
    <<<<PyStr("1000"), PyStr("a")>>, <<PyStr("2000"), PyStr("b")>>,
      <<PyStr("1234"), PyStr("c")>>>>

\* 'read key > 1234 from cars' has just been served on an existing cars.
CarsRead ==
    /\ request.request_type = 3
    /\ request.query.v = "read key > 1234 from cars"
    /\ _collection_exists(before, PyStr("cars"))

\* C10 as claimed: 'read key > 1234 from cars' on cars = {1000: "a",
\* 2000: "b", 1234: "c"} with integer keys returns [(2000, "b")].
C10_Claimed ==
    (CarsRead /\ dict_getitem(before, PyStr("cars")) = CarsInt) =>
        response.data = PyList(<<<<PyInt(2000), PyStr("b")>>>>)

\* The entries of d, in order, whose key is a text greater than operand.
RECURSIVE TextKeysAbove(_, _)
TextKeysAbove(d, operand) ==
    IF Len(d) = 0 THEN <<>>
    ELSE (IF Head(d)[1].t = "str" /\ StrLt(operand, Head(d)[1].v)
          THEN <<Head(d)>> ELSE <<>>)
         \o TextKeysAbove(Tail(d), operand)

\* C10 as amended: the bare operand 1234 is a text, so 'read key > 1234
\* from cars' returns, in iteration order, the entries whose key is a text
\* greater than "1234": [("2000", "b")] on the cars of the example under text
\* keys, and [] under integer keys, which do not compare with a text.
C10_ReadByKeyText ==
    CarsRead =>
        LET d == dict_getitem(before, PyStr("cars"))
        IN /\ response = Response(TRUE, None, PyStr("cars"),
                                  PyList(TextKeysAbove(d, "1234")))
           /\ d = CarsText => response.data = PyList(<<<<PyStr("2000"), PyStr("b")>>>>)
           /\ d = CarsInt => response.data = PyList(<<>>)

\* The query has just been served on the cars of the example under text keys.
C10_Witness ==
    /\ CarsRead
    /\ dict_getitem(before, PyStr("cars")) = CarsText
    /\ response.success

\* The request just served was a parsed read or delete query on element el
\* of a collection that existed.
Scan(action, el) ==
    /\ QueryParsed
    /\ Q.action = action /\ Q.element = el
    /\ _collection_exists(before, PyStr(Q.collection1))

\* The collection the query just served names, before and after it.
Was == dict_getitem(before, PyStr(Q.collection1))

Now == dict_getitem(collections, PyStr(Q.collection1))

\* The entries of d, in order, whose key satisfies op with operand.
RECURSIVE ByKey(_, _, _)
ByKey(d, op, operand) ==
    IF Len(d) = 0 THEN <<>>
    ELSE (IF Satisfies(op, Head(d)[1], operand) THEN <<Head(d)>> ELSE <<>>)
         \o ByKey(Tail(d), op, operand)

\* The entries of d, in order, that are not among those of the list hit.
RECURSIVE Rest(_, _)
Rest(d, hit) ==
    IF Len(d) = 0 THEN <<>>
    ELSE (IF \E i \in 1..Len(hit) : hit[i] = Head(d) THEN <<>> ELSE <<Head(d)>>)
         \o Rest(Tail(d), hit)

\* C11 as claimed: a read or delete by key with operator '=' returns the
\* single entry (operand, c[operand]) when the operand is a key of c, and a
\* delete removes that entry; when the operand is not a key the result is
\* empty and c is unchanged.
C11_Claimed ==
    ((Scan("read", "key") \/ Scan("delete", "key")) /\ Q.operator = "=") =>
        IF dict_contains(Was, Q.value)
        THEN /\ response = Response(TRUE, None, PyStr(Q.collection1),
                                    PyList(<<<<Q.value, dict_getitem(Was, Q.value)>>>>))
             /\ Now = (IF Q.action = "delete" THEN Without(Was, Q.value) ELSE Was)
        ELSE /\ response = Response(TRUE, None, PyStr(Q.collection1), PyList(<<>>))
             /\ collections = before

\* C12 as claimed: 'delete key <op> <operand> from c' with op among <, >,
\* <=, >=, contains returns every entry of c whose key satisfies the
\* operator and removes it from c; the other entries remain.
C12_Claimed ==
    (Scan("delete", "key") /\ Q.operator \in {"<", ">", "<=", ">=", "contains"}) =>
        /\ response = Response(TRUE, None, PyStr(Q.collection1),
                               PyList(ByKey(Was, Q.operator, Q.value)))
        /\ Now = Rest(Was, ByKey(Was, Q.operator, Q.value))

\* C13: 'delete value <op> <operand> from c' returns exactly the entries of
\* c whose value satisfies the operator; afterwards none of their keys is in
\* c, every other entry of c is still there with its value, and the other
\* collections are unchanged.
C13_DeleteByValue ==
    Scan("delete", "value") =>
        LET hit == ByValue(Was, Q.operator, Q.value)
        IN /\ response = Response(TRUE, None, PyStr(Q.collection1), PyList(hit))
           /\ \A i \in 1..Len(hit) : ~dict_contains(Now, hit[i][1])
           /\ Now = Rest(Was, hit)
           /\ NamesOf(collections) = NamesOf(before)
           /\ OthersUnchanged(collections, before, PyStr(Q.collection1))

\* A delete by value has just removed an entry of a collection and kept
\* another, beside another collection that holds entries.
C13_Witness ==
    /\ Scan("delete", "value")
    /\ Len(response.data.v) > 0
    /\ Len(Now) > 0
    /\ \E n \in Names \ {PyStr(Q.collection1)} :
          _collection_exists(collections, n) /\ Len(dict_getitem(collections, n)) > 0

\* C14: get, every 'read ...' query and every join leave the whole database
\* as it was: no entry and no collection is added, removed or changed.
C14_ReadOnly ==
    (\/ request.request_type = 0
     \/ QueryParsed /\ Q.action \in {"read", "join"}) =>
        collections = before

\* A read by value has just returned entries of an existing collection.
C14_Witness ==
    /\ Scan("read", "value")
    /\ response.success
    /\ Len(response.data.v) > 0

\* op can be applied to a and b: an ordering needs two real numbers or two
\* texts, 'contains' a text in a text; '=' applies to any two objects.
Defined(op, a, b) ==
    CASE op = "=" -> TRUE
      [] op = "contains" -> a.t = "str" /\ b.t = "str"
      [] OTHER -> \/ (a.t \in {"int", "float"} /\ b.t \in {"int", "float"})
                  \/ (a.t = "str" /\ b.t = "str")

\* op(a, b) where it is defined.
Truth(op, a, b) ==
    CASE op = "=" -> py_eq(a, b)
      [] op = "contains" -> IsSubstring(b.v, a.v)
      [] op = "<" -> py_lt(a, b)
      [] op = ">" -> py_lt(b, a)
      [] op = "<=" -> ~py_lt(b, a)
      [] op = ">=" -> ~py_lt(a, b)

\* The entries of d, in order, for whose key (el = 1) or value (el = 2) the
\* comparison with operand is defined and true.
RECURSIVE DefinedAndTrue(_, _, _, _)
DefinedAndTrue(d, el, op, operand) ==
    IF Len(d) = 0 THEN <<>>
    ELSE (IF Defined(op, Head(d)[el], operand) /\ Truth(op, Head(d)[el], operand)
          THEN <<Head(d)>> ELSE <<>>)
         \o DefinedAndTrue(Tail(d), el, op, operand)

\* Key is element 1 of an entry, value element 2.
ElementOf(q) == IF q.element = "key" THEN 1 ELSE 2

\* The query just served scanned a collection in which the operator cannot
\* be applied to some entry and the operand.
ScanIncompatible ==
    /\ QueryParsed
    /\ Q.action \in {"read", "delete"}
    /\ _collection_exists(before, PyStr(Q.collection1))
    /\ \E i \in 1..Len(Was) : ~Defined(Q.operator, Was[i][ElementOf(Q)], Q.value)

\* C15: an entry to which the operator cannot be applied is a non-match and
\* the scan continues: the query succeeds, returns exactly the entries for
\* which the comparison is defined and true, removes no other entry, and a
\* delete by value removes exactly those.
C15_IncompatibleIsNonMatch ==
    ScanIncompatible =>
        LET hit == DefinedAndTrue(Was, ElementOf(Q), Q.operator, Q.value)
        IN /\ response = Response(TRUE, None, PyStr(Q.collection1), PyList(hit))
           /\ server = "listening"
           /\ Rest(Now, hit) = Rest(Was, hit)
           /\ Q.action = "read" => Now = Was
           /\ (Q.action = "delete" /\ Q.element = "value") => Now = Rest(Was, hit)

\* A delete by value has just removed an entry and kept an entry to whose
\* value the operator cannot be applied.
C15_Witness ==
    /\ ScanIncompatible
    /\ Q.action = "delete" /\ Q.element = "value"
    /\ Len(response.data.v) > 0
    /\ Len(Now) < Len(Was)
    /\ \E i \in 1..Len(Now) : ~Defined(Q.operator, Now[i][2], Q.value)

\* Malformed query texts: 'from' missing, an unknown action, element or
\* operator keyword, an unterminated type cast, an unknown type tag and a
\* literal that is not of the tagged type.
Malformed ==
    { "read key > 1 age",
      "delete value < int ( 20 ) age",
      "fetch key = 1 from age",
      "read keys > 1 from age",
      "read key <> 1 from age",
      "read value < int ( 20 from age",
      "read value < bool ( 1 ) from age",
      "read value < int ( abc ) from age" }

\* The failure Response of a query that is not of the syntax.
QuerySyntaxError ==
    Response(FALSE, PyStr("Invalid query syntax."), None, None)

\* C16: every malformed query text is answered with the failure "Invalid
\* query syntax.", leaves the database unchanged and does not end request
\* handling: the server goes on listening.
C16_MalformedQuery ==
    (request.request_type = 3 /\ request.query.v \in Malformed) =>
        /\ response = QuerySyntaxError
        /\ collections = before
        /\ server = "listening"

\* The query with the unknown type tag has just been served while age held
\* entries.
C16_Witness ==
    /\ request.request_type = 3
    /\ request.query.v = "read value < bool ( 1 ) from age"
    /\ _collection_exists(before, PyStr("age"))
    /\ Len(dict_getitem(before, PyStr("age"))) > 0
    /\ ~response.success

\* C17 as claimed: a request whose type is none of Read, Add, Delete, Query,
\* CreateCollection, DeleteCollection is answered with the failure "Request
\* type does not exist.", leaves the database unchanged, and request
\* handling continues.
C17_Claimed ==
    (request # NoRequest /\ request.request_type \notin 0..5) =>
        /\ response = Response(FALSE, PyStr("Request type does not exist."), None, None)
        /\ collections = before
        /\ server = "listening"

\* C18: a Response that reports a failure carries a message and neither a
\* collection name nor data; a Response that reports success carries no
\* message.
C18_WellFormedResponse ==
    response # None =>
        /\ ~response.success =>
              /\ response.message.t = "str"
              /\ response.collection_name = None
              /\ response.data = None
        /\ response.success => response.message = None

\* A query has just failed on a database that holds entries.
C18_Witness ==
    /\ response # None
    /\ ~response.success
    /\ request.request_type = 3
    /\ \E n \in Names :
          _collection_exists(collections, n) /\ Len(dict_getitem(collections, n)) > 0

\* A snapshot pass has written the last collection of its copy.
PassDone == job.pc = "loop" /\ Len(job.items) = 0

\* The database colls as the set of its (name, content) pairs, and the
\* collections a pass wrote, each as the dict its file holds.
Files(colls) == {colls[i] : i \in 1..Len(colls)}

Written == {<<written[w][1], loads(written[w][2], <<>>)>> : w \in 1..Len(written)}

\* C19 as claimed: the collections a pass wrote, and their contents, are the
\* database exactly as it was at one single instant during that pass.
C19_Claimed ==
    PassDone => \E i \in 1..Len(instants) : Written = Files(instants[i])

\* C20 as claimed: what a pass writes for a collection is that collection's
\* complete content at one instant of the pass, and pickling never fails
\* because the collection changed meanwhile.
C20_Claimed ==
    /\ [](\A f \in Written :
            \E i \in 1..Len(instants) :
                /\ _collection_exists(instants[i], f[1])
                /\ dict_getitem(instants[i], f[1]) = f[2])
    /\ [][job.pc = "dump" => job'.pc # "failed"]_vars

\* Query texts that are a complete sentence followed by further tokens, or
\* whose collection token is not purely alphabetic.
Trailing ==
    { "join age with cars x",
      "delete value >= int ( 25 ) from age extra",
      "read key >= int ( 2 ) from age2" }

\* C26 as claimed: a query text with tokens after a complete sentence, or
\* with a collection token that is not purely alphabetic, is rejected with
\* the query-syntax failure and has no effect on the database.
C26_Claimed ==
    (request.request_type = 3 /\ request.query.v \in Trailing) =>
        /\ response = QuerySyntaxError
        /\ collections = before

\* C27: a request answered with success = false leaves the database exactly
\* as it was before the request; a failing delete query has removed no
\* entry.
C27_UnchangedOnError ==
    (response # None /\ ~response.success) => collections = before

\* A delete query has just failed while the collection it names held
\* entries.
C27_Witness ==
    /\ request.request_type = 3
    /\ request.query.v = "delete value < int ( 20 ) age"
    /\ ~response.success
    /\ _collection_exists(before, PyStr("age"))
    /\ Len(dict_getitem(before, PyStr("age"))) > 0

\* The content of the file of collection name among files: NoFile when
\* there is none.
NoFile == [t |-> "absent", v |-> <<>>]

FileOf(files, name) ==
    IF \E f \in files : f[1] = name
    THEN (CHOOSE f \in files : f[1] = name)[2]
    ELSE NoFile

\* C21 as claimed: a successful snapshot pass followed by a restart yields
\* the database of snapshot time: the same collection names, those created
\* at run time included and those deleted excluded, with the same entries.
\* (The pass taken here is one during which no request was served.)
C21_Claimed ==
    [][(PassDone /\ Len(instants) = 1 /\ Restart) =>
          Files(collections') = Files(instants[1])]_vars

\* C22 as claimed: at start-up every configured collection whose file is
\* absent or is not readable as a pickle is initialised empty, start-up
\* completes without an error and the other configured collections are
\* loaded from their files.
C22_Claimed ==
    [][Restart =>
          /\ server' = "listening"
          /\ \A i \in 1..Len(collection_names) :
                /\ _collection_exists(collections', collection_names[i])
                /\ dict_getitem(collections', collection_names[i]) =
                     (IF FileOf(Data, collection_names[i]).t = "pickle"
                      THEN loads(FileOf(Data, collection_names[i]).v, <<>>)
                      ELSE <<>>)]_vars

\* C23: when writing a collection fails the pass stops there: the failing
\* step changes neither the database nor the files of the collections that
\* come later in the pass, the files the pass has written keep their new
\* content, and nothing is written until the job has ended.
C23_FailedPass ==
    [][/\ (job.pc # "failed" /\ job'.pc = "failed") =>
            /\ collections' = collections
            /\ written' = written
            /\ \A w \in 1..Len(written) :
                  FileOf(Data', written[w][1]) = Pickle(written[w][2])
            /\ \A i \in 2..Len(job.items) :
                  FileOf(Data', job.items[i][1]) = FileOf(Data, job.items[i][1])
       /\ job.pc = "failed" =>
            /\ Data' = Data
            /\ job'.pc \in {"failed", "idle"}
      ]_vars

\* A pass has failed after it wrote a collection and before it wrote another.
C23_Witness ==
    /\ job.pc = "failed"
    /\ Len(written) > 0
    /\ Len(job.items) > 1

\* C24: a failed pass ends that pass only: the server goes on listening and
\* the scheduler starts another pass.
C24_NextPass ==
    /\ [](job.pc = "failed" => server = "listening")
    /\ (job.pc = "failed") ~> (job.pc = "loop")

\* A pass has failed during which a request was served.
C24_Witness ==
    /\ job.pc = "failed"
    /\ Len(instants) > 1
    /\ server = "listening"

\* C25 as claimed: in every reachable state, the state right after start-up
\* included, every collection name of the database is a non-empty text of
\* alphabetic characters.
C25_Claimed ==
    \A i \in 1..Len(collections) :
        collections[i][1].t = "str" /\ isalpha(collections[i][1].v)

=============================================================================
